---- MODULE Spec2Model ----
(***************************************************************************)
(* The three parquet tools of examples/rca/tools.py: list_tables_in_       *)
(* directory, get_schema and query_parquet_files, with the helpers they    *)
(* call (_serialize_datetime, _estimate_token_count, _enforce_token_limit, *)
(* _validate_parquet_files).  One call runs at a time; a call to           *)
(* query_parquet_files is followed statement by statement through its      *)
(* view-registration loop.                                                 *)
(*                                                                         *)
(* Texts are modelled as sequences of fragments (the literal pieces of the *)
(* f-strings of the source and the values interpolated into them).  A JSON *)
(* text is modelled by its shape, its top-level item count and its length  *)
(* in characters.  The DuckDB engine is modelled by the errors it raises   *)
(* and the rows it returns.                                                *)
(***************************************************************************)
EXTENDS Integers, Sequences, FiniteSets, TLC

VARIABLES pc, op, parquet_files, query, limit, idx, base_name, table_name,
          counter, table_names, assigned, views, result, result_json, ret, raised

vars == <<pc, op, parquet_files, query, limit, idx, base_name, table_name,
          counter, table_names, assigned, views, result, result_json, ret, raised>>

(* ------------------------------ bounds ------------------------------- *)

\* Longest list of paths handed to get_schema / query_parquet_files.
MaxFiles == 3

\* Most rows the engine returns for a query.
MaxRows == 3

(* ----------------------------- constants ----------------------------- *)

TOKEN_LIMIT == 5000

average_chars_per_token == 3

\* Python's None where the source assigns it to an integer-valued variable.
None == -1

(* ----------------------- paths and file system ----------------------- *)

Path(d, s, e) == [dir |-> d, stem |-> s, ext |-> e]

\* The paths a caller passes.  The last one names no file.
Paths ==
    { Path("d1", "a", "parquet"), Path("d1", "a_1", "parquet"),
      Path("d1", "b-c", "parquet"), Path("d1", "gone", "parquet") }

\* The files that exist (os.path.exists / Path.exists agree on them).
FileSystem ==
    { Path("d1", "a", "parquet"), Path("d1", "a_1", "parquet"),
      Path("d1", "b-c", "parquet"), Path("d1", "notes", "txt") }

\* The files read_parquet cannot read.
CorruptFiles == { Path("d1", "b-c", "parquet") }

\* The arguments given as `directory`: a directory, a missing one, a file.
Directories == { "d1", "nowhere", "d1/notes.txt" }

PathText(p) == p.dir \o "/" \o p.stem \o "." \o p.ext

\* Path(file_path).name and Path(file_path).stem
PathName(p) == p.stem \o "." \o p.ext

PathStem(p) == p.stem

RECURSIVE SeqsUpTo(_, _)
SeqsUpTo(S, n) ==
    IF n = 0 THEN { <<>> }
    ELSE LET shorter == SeqsUpTo(S, n - 1)
         IN  shorter \cup { Append(s, x) : s \in { t \in shorter : Len(t) = n - 1 }, x \in S }

\* parquet_files: Union[str, List[str]]
FileArgs ==
    { [isStr |-> TRUE, value |-> p] : p \in Paths }
    \cup { [isStr |-> FALSE, value |-> s] : s \in SeqsUpTo(Paths, MaxFiles) }

\* Lines 64-65: a single path is wrapped in a list.
AsList(arg) == IF arg.isStr THEN <<arg.value>> ELSE arg.value

(* ------------------------------ errors ------------------------------- *)

\* An exception: its type and str(e) as a sequence of fragments.
Exc(t, txt) == [type |-> t, text |-> txt]

NoExc == Exc("none", <<>>)

NotFoundHead == "Parquet file not found: "

NotFoundTail ==
    "\nPlease check the file path and ensure the file exists. You may use 'list_tables_in_directory' to discover available parquet files."

ParserErrorText == "Parser Error: syntax error at or near"

CatalogErrorText == "Catalog Error: Table with name does not exist!"

ConversionErrorText == "Conversion Error: Could not convert string to INT32"

NotSerializableText == "Object of type is not JSON serializable"

UnboundText == "cannot access local variable 'table_names' where it is not associated with a value"

InvalidParquetText == "Invalid Input Error: No magic bytes found at end of file"

NotADirectoryText == "[Errno 20] Not a directory: "

\* The needles of the handler found in fragment.lower().
NeedlesIn(fragment) ==
    CASE fragment = NotFoundTail -> { "table" }
      [] fragment = ParserErrorText -> { "syntax error", "parser error" }
      [] fragment = CatalogErrorText -> { "catalog", "table" }
      [] fragment = UnboundText -> { "table" }
      [] OTHER -> {}

\* needle in error_msg.lower()
InLower(needle, text) == \E i \in 1..Len(text) : needle \in NeedlesIn(text[i])

(* ------------------------- values and rows --------------------------- *)

\* A Python value: its type and, for a dict or a list, its members.
Val(t, items) == [t |-> t, items |-> items]

\* A result row as the dict built at line 164, with the length in characters
\* of its block in json.dumps(rows, indent=2) (newline and indentation
\* included).
Row(items, chars) == [t |-> "dict", items |-> items, chars |-> chars]

\* The rows the engine returns: an integer column; a TIMESTAMP column beside
\* a LIST(TIMESTAMP) column; a DATE column; a long VARCHAR column.
RowSamples ==
    { Row(<<Val("int", <<>>)>>, 40),
      Row(<<Val("datetime", <<>>),
            Val("list", <<Val("datetime", <<>>), Val("datetime", <<>>)>>)>>, 6000),
      Row(<<Val("date", <<>>)>>, 50),
      Row(<<Val("str", <<>>)>>, 16000) }

Results == SeqsUpTo(RowSamples, MaxRows)

TemporalTypes == { "datetime", "date", "time", "timedelta" }

RECURSIVE Mentions(_, _)
\* obj is, or holds at some depth, a value of one of the types
Mentions(obj, types) ==
    \/ obj.t \in types
    \/ \E i \in 1..Len(obj.items) : Mentions(obj.items[i], types)

RECURSIVE SerializeDatetime(_)
SerializeDatetime(obj) ==
    IF obj.t = "datetime" THEN Val("isostr", <<>>)
    ELSE IF obj.t = "dict"
         THEN [obj EXCEPT !.items = [i \in 1..Len(obj.items) |-> SerializeDatetime(obj.items[i])]]
    ELSE IF obj.t = "list"
         THEN [obj EXCEPT !.items = [i \in 1..Len(obj.items) |-> SerializeDatetime(obj.items[i])]]
    ELSE obj

\* _serialize_datetime applied to the list `rows`
SerializeRows(rows) == [i \in 1..Len(rows) |-> SerializeDatetime(rows[i])]

Min(a, b) == IF a <= b THEN a ELSE b

Max(a, b) == IF a >= b THEN a ELSE b

\* A mutant of Slice: the cap is taken from the end of the list.
SliceFromEnd(s, n) ==
    IF n >= 0 THEN SubSeq(s, Len(s) - Min(n, Len(s)) + 1, Len(s))
    ELSE SubSeq(s, 1, Max(0, Len(s) + n))

\* Python's s[:n]
Slice(s, n) ==
    IF n >= 0 THEN SubSeq(s, 1, Min(n, Len(s)))
    ELSE SubSeq(s, 1, Max(0, Len(s) + n))

(* ----------------------------- JSON text ----------------------------- *)

\* A text handed to the size guard: whether it starts with "[", whether
\* json.loads accepts it, the number of top-level items when it is a list,
\* its length in characters, and the rows it was made of.
Text(shape, n, len, rows) == [shape |-> shape, n |-> n, len |-> len, rows |-> rows]

NoText == Text("none", 0, 0, <<>>)

RECURSIVE SumChars(_)
SumChars(rows) ==
    IF rows = <<>> THEN 0 ELSE rows[1].chars + SumChars(Tail(rows))

\* len(json.dumps(rows, indent=2)): "[]" for no rows, else "[", the rows'
\* blocks separated by ",", and "\n]".
DumpLen(rows) ==
    IF rows = <<>> THEN 2 ELSE 1 + SumChars(rows) + (Len(rows) - 1) + 2

\* json.dumps raises TypeError on a value it has no encoding for.
JsonSerializable(rows) ==
    \A i \in 1..Len(rows) : ~Mentions(rows[i], TemporalTypes)

JsonDumps(rows) == Text("list", Len(rows), DumpLen(rows), rows)

\* The payloads of a direct call of the guard: a list text (possibly padded
\* with whitespace), an object text, a text that starts with "[" and does not
\* parse.
PayloadLens == { 12, 14998, 15000, 15001, 15002, 15003, 30000 }

Payloads ==
    { Text("list", n, l, <<>>) : n \in 0..MaxRows, l \in PayloadLens }
    \cup { Text(sh, 0, l, <<>>) : sh \in { "object", "badlist" }, l \in PayloadLens }

StartsWithBracket(payload) == payload.shape \in { "list", "badlist" }

\* A mutant of _estimate_token_count: the division rounds down.
EstimateTokenCountFloor(len) == len \div average_chars_per_token

EstimateTokenCount(len) ==
    (len + average_chars_per_token - 1) \div average_chars_per_token

\* `if current_size:`
Truthy(current_size) == current_size # None /\ current_size # 0

\* A mutant of SuggestedLimit: the ratio is inverted.
SuggestedLimitInverted(current_size, token_estimate) ==
    IF Truthy(current_size)
    THEN Max(1, (current_size * token_estimate * 8) \div (TOKEN_LIMIT * 10))
    ELSE None

\* Lines 38-41: int(current_size * (TOKEN_LIMIT / token_estimate) * 0.8),
\* which is floor(current_size * TOKEN_LIMIT * 8 / (token_estimate * 10)).
SuggestedLimit(current_size, token_estimate) ==
    IF Truthy(current_size)
    THEN Max(1, (current_size * TOKEN_LIMIT * 8) \div (token_estimate * 10))
    ELSE None

NoRet == [kind |-> "none"]

\* _enforce_token_limit(payload, context): the payload itself, or the warning
\* object of lines 51-59.
EnforceTokenLimit(payload, context) ==
    LET token_estimate == EstimateTokenCount(payload.len)
        current_size ==
            IF StartsWithBracket(payload)
            THEN IF payload.shape = "list" THEN payload.n ELSE None
            ELSE None
        suggested_limit == SuggestedLimit(current_size, token_estimate)
    IN  IF token_estimate <= TOKEN_LIMIT
        THEN [kind |-> "payload", payload |-> payload]
        ELSE [kind |-> "diagnostic",
              error |-> "Result exceeds token budget",
              context |-> context,
              estimated_tokens |-> token_estimate,
              token_limit |-> TOKEN_LIMIT,
              rows_returned |-> current_size,
              suggested_limit |-> suggested_limit]

(* ---------------------- _validate_parquet_files ---------------------- *)

\* The list of paths, or the FileNotFoundError raised for the first path of
\* the list that does not exist.
ValidateParquetFiles(arg) ==
    LET files == AsList(arg)
        missing == { i \in 1..Len(files) : files[i] \notin FileSystem }
    IN  IF missing # {}
        THEN LET first == CHOOSE i \in missing : \A j \in missing : i <= j
             IN  [ok |-> FALSE, files |-> <<>>,
                  exc |-> Exc("FileNotFoundError",
                              <<NotFoundHead, PathText(files[first]), NotFoundTail>>)]
        ELSE [ok |-> TRUE, files |-> files, exc |-> NoExc]

(* ------------------------------ engine ------------------------------- *)

\* A query: its text, whether the parser accepts it, the relation it reads
\* and whether evaluating it fails on the data.
Query(text, malformed, rel, failing) ==
    [text |-> text, malformed |-> malformed, rel |-> rel, failing |-> failing]

NoQuery == Query("", FALSE, "", FALSE)

Queries ==
    { Query("SELECT * FROM a", FALSE, "a", FALSE),
      Query("SELEC * FROM a", TRUE, "a", FALSE),
      Query("SELECT CAST(name AS INT) FROM a_1", FALSE, "a_1", TRUE) }

DefaultLimit == 50

\* The values given as `limit`.
Limits == { -1, 0, 2, DefaultLimit }

\* f"{base_name}_{counter}"
Suffixed(base, k) == base \o "_" \o ToString(k)

\* The names that are no SQL identifier: those made of the stem "b-c".
ValidIdentifier(name) ==
    /\ name # "b-c"
    /\ \A k \in 0..(MaxFiles + 1) : name # Suffixed("b-c", k)

\* conn.execute("CREATE VIEW {table_name} AS SELECT * FROM read_parquet(..)")
CreateView(name, path, catalog) ==
    IF ~ValidIdentifier(name) THEN Exc("ParserException", <<ParserErrorText>>)
    ELSE IF \E i \in 1..Len(catalog) : catalog[i] = name
         THEN Exc("CatalogException", <<CatalogErrorText>>)
    ELSE IF path \in CorruptFiles
         THEN Exc("InvalidInputException", <<InvalidParquetText>>)
    ELSE NoExc

\* conn.execute(query): the error the engine raises, if any.
ExecuteQuery(q, catalog) ==
    IF q.malformed THEN Exc("ParserException", <<ParserErrorText>>)
    ELSE IF \A i \in 1..Len(catalog) : catalog[i] # q.rel
         THEN Exc("CatalogException", <<CatalogErrorText>>)
    ELSE IF q.failing
         THEN Exc("ConversionException", <<ConversionErrorText>>)
    ELSE NoExc

(* ----------------------- query_parquet_files ------------------------- *)

\* The local table_names: unbound until line 144 runs.
Unbound == [bound |-> FALSE, names |-> {}]

Message(text, tables) == [kind |-> "message", text |-> text, tables |-> tables]

Returns(r) == [ret |-> r, raised |-> NoExc]

Raises(e) == [ret |-> NoRet, raised |-> e]

\* Lines 173-184.  Reading table_names while it is unbound raises
\* UnboundLocalError out of the handler.
QueryHandler(e, q, tn) ==
    LET error_msg == e.text
    IN  IF InLower("syntax error", error_msg) \/ InLower("parser error", error_msg)
        THEN IF ~tn.bound THEN Raises(Exc("UnboundLocalError", <<UnboundText>>))
             ELSE Returns(Message(<<"SQL syntax error: ">> \o error_msg
                                    \o <<"\nQuery: ", q.text, "\nAvailable tables: ">>,
                                  tn.names))
        ELSE IF InLower("catalog", error_msg) \/ InLower("table", error_msg)
        THEN IF ~tn.bound THEN Raises(Exc("UnboundLocalError", <<UnboundText>>))
             ELSE Returns(Message(<<"Table reference error: ">> \o error_msg
                                    \o <<"\nAvailable tables: ">>,
                                  tn.names))
        ELSE Returns(Message(<<"Query execution failed: ">> \o error_msg, {}))

\* A mutant of Taken: the collision check is missing.
TakenNever(name, tn) == FALSE

\* `table_name in table_names`
Taken(name, tn) == name \in tn.names

\* A mutant of Candidate: the suffix is taken after the increment.
CandidateAfterIncrement(base, k) == Suffixed(base, k + 1)

\* Line 152
Candidate(base, k) == Suffixed(base, k)

(* ------------------------------ state -------------------------------- *)

Init ==
    /\ pc = "idle"
    /\ op = "none"
    /\ parquet_files = <<>>
    /\ query = NoQuery
    /\ limit = DefaultLimit
    /\ idx = 0
    /\ base_name = ""
    /\ table_name = ""
    /\ counter = 0
    /\ table_names = Unbound
    /\ assigned = <<>>
    /\ views = <<>>
    /\ result = <<>>
    /\ result_json = NoText
    /\ ret = NoRet
    /\ raised = NoExc

\* The call ends: with the text it returns or the exception it lets out.
Finish(outcome) ==
    /\ pc' = "done"
    /\ ret' = outcome.ret
    /\ raised' = outcome.raised

\* Lines 141-144: the call, the validation and the new connection.
QueryCall(arg, q, n) ==
    /\ pc = "idle"
    /\ op' = "query"
    /\ parquet_files' = AsList(arg)
    /\ query' = q
    /\ limit' = n
    /\ LET v == ValidateParquetFiles(arg)
       IN  IF v.ok
           THEN /\ table_names' = [bound |-> TRUE, names |-> {}]
                /\ pc' = "for"
                /\ UNCHANGED <<ret, raised>>
           ELSE /\ table_names' = Unbound
                /\ Finish(QueryHandler(v.exc, q, Unbound))
    /\ UNCHANGED <<idx, base_name, table_name, counter, assigned, views, result,
                   result_json>>

\* Lines 147-150: the next path of the list, or the end of the loop.
ForNext ==
    /\ pc = "for"
    /\ IF idx < Len(parquet_files)
       THEN /\ idx' = idx + 1
            /\ base_name' = PathStem(parquet_files[idx + 1])
            /\ table_name' = PathStem(parquet_files[idx + 1])
            /\ counter' = 1
            /\ pc' = "while"
       ELSE /\ pc' = "execute"
            /\ UNCHANGED <<idx, base_name, table_name, counter>>
    /\ UNCHANGED <<op, parquet_files, query, limit, table_names, assigned, views,
                   result, result_json, ret, raised>>

\* Lines 151-153: one turn of the while loop.
WhileBody ==
    /\ pc = "while"
    /\ Taken(table_name, table_names)
    /\ table_name' = Candidate(base_name, counter)
    /\ counter' = counter + 1
    /\ UNCHANGED <<pc, op, parquet_files, query, limit, idx, base_name, table_names,
                   assigned, views, result, result_json, ret, raised>>

\* Lines 154-156: the name is recorded, then the view is created.
Register ==
    /\ pc = "while"
    /\ ~Taken(table_name, table_names)
    /\ table_names' = [table_names EXCEPT !.names = @ \cup { table_name }]
    /\ assigned' = Append(assigned, table_name)
    /\ LET e == CreateView(table_name, parquet_files[idx], views)
       IN  IF e = NoExc
           THEN /\ views' = Append(views, table_name)
                /\ pc' = "for"
                /\ UNCHANGED <<ret, raised>>
           ELSE /\ views' = views
                /\ Finish(QueryHandler(e, query, table_names'))
    /\ UNCHANGED <<op, parquet_files, query, limit, idx, base_name, table_name,
                   counter, result, result_json>>

\* Lines 159-171: the query runs and its rows are serialized, capped and
\* passed through the size guard.
Execute ==
    /\ pc = "execute"
    /\ LET e == ExecuteQuery(query, views)
       IN  IF e # NoExc
           THEN /\ Finish(QueryHandler(e, query, table_names))
                /\ UNCHANGED <<result, result_json>>
           ELSE \E rows \in Results :
                /\ result' = rows
                /\ IF rows = <<>>
                   THEN /\ Finish(Returns(Message(
                              <<"Query executed successfully but returned no results.">>, {})))
                        /\ UNCHANGED result_json
                   ELSE LET serialized_rows == SerializeRows(rows)
                            capped == IF Len(serialized_rows) > limit
                                      THEN Slice(serialized_rows, limit)
                                      ELSE serialized_rows
                        IN  IF JsonSerializable(capped)
                            THEN /\ result_json' = JsonDumps(capped)
                                 /\ Finish(Returns(EnforceTokenLimit(JsonDumps(capped),
                                                                     "query_parquet_files")))
                            ELSE /\ UNCHANGED result_json
                                 /\ Finish(QueryHandler(
                                        Exc("TypeError", <<NotSerializableText>>),
                                        query, table_names))
    /\ UNCHANGED <<op, parquet_files, query, limit, idx, base_name, table_name,
                   counter, table_names, assigned, views>>

(* ---------------------------- get_schema ------------------------------ *)

\* Lines 111-120: the entry of each file name, the last path of that name
\* deciding it: its columns, or the text of the error of reading it.
Schemas(files) ==
    [name \in { PathName(files[i]) : i \in 1..Len(files) } |->
        LET last == CHOOSE i \in 1..Len(files) :
                        /\ PathName(files[i]) = name
                        /\ \A j \in 1..Len(files) : PathName(files[j]) = name => j <= i
        IN  IF files[last] \in CorruptFiles
            THEN <<"Error reading schema: ", InvalidParquetText>>
            ELSE <<"columns">>]

\* Lines 106-124
GetSchema(arg) ==
    /\ pc = "idle"
    /\ op' = "schema"
    /\ parquet_files' = AsList(arg)
    /\ LET v == ValidateParquetFiles(arg)
       IN  IF v.ok
           THEN Finish(Returns([kind |-> "schemas", schemas |-> Schemas(v.files)]))
           ELSE Finish(Returns(Message(<<"Error getting schema: ">> \o v.exc.text, {})))
    /\ UNCHANGED <<query, limit, idx, base_name, table_name, counter, table_names,
                   assigned, views, result, result_json>>

(* ---------------------- list_tables_in_directory ---------------------- *)

\* os.path.exists(directory)
Exists(directory) ==
    \E p \in FileSystem : p.dir = directory \/ PathText(p) = directory

\* os.listdir raises NotADirectoryError for a path that names a file.
IsDirectory(directory) == \E p \in FileSystem : p.dir = directory

\* Lines 87-94
ListTables(directory) ==
    /\ pc = "idle"
    /\ op' = "list"
    /\ IF ~Exists(directory)
       THEN Finish(Returns(Message(<<"Error: Directory '", directory, "' does not exist.">>, {})))
       ELSE IF ~IsDirectory(directory)
       THEN Finish(Returns(Message(<<"Error listing files: ", NotADirectoryText, directory>>, {})))
       ELSE Finish(Returns([kind |-> "listing",
                            files |-> { PathName(p) : p \in { f \in FileSystem :
                                            f.dir = directory /\ f.ext = "parquet" } }]))
    /\ UNCHANGED <<parquet_files, query, limit, idx, base_name, table_name, counter,
                   table_names, assigned, views, result, result_json>>

(* ------------------------ _enforce_token_limit ------------------------ *)

\* The guard called on a text of its own.
GuardCall(text) ==
    /\ pc = "idle"
    /\ op' = "guard"
    /\ result_json' = text
    /\ Finish(Returns(EnforceTokenLimit(text, "guard")))
    /\ UNCHANGED <<parquet_files, query, limit, idx, base_name, table_name, counter,
                   table_names, assigned, views, result>>

(* ------------------------------- next -------------------------------- *)

\* The caller takes the outcome; nothing of a call outlives it.
Return ==
    /\ pc = "done"
    /\ pc' = "idle"
    /\ op' = "none"
    /\ parquet_files' = <<>>
    /\ query' = NoQuery
    /\ limit' = DefaultLimit
    /\ idx' = 0
    /\ base_name' = ""
    /\ table_name' = ""
    /\ counter' = 0
    /\ table_names' = Unbound
    /\ assigned' = <<>>
    /\ views' = <<>>
    /\ result' = <<>>
    /\ result_json' = NoText
    /\ ret' = NoRet
    /\ raised' = NoExc

Next ==
    \/ \E arg \in FileArgs, q \in Queries, n \in Limits : QueryCall(arg, q, n)
    \/ ForNext
    \/ WhileBody
    \/ Register
    \/ Execute
    \/ \E arg \in FileArgs : GetSchema(arg)
    \/ \E directory \in Directories : ListTables(directory)
    \/ \E text \in Payloads : GuardCall(text)
    \/ Return

Spec == Init /\ [][Next]_vars

(* ------------------------------ claims ------------------------------- *)

Done == pc = "done"

\* The paths of the argument that name no file.
Missing == { i \in 1..Len(parquet_files) : parquet_files[i] \notin FileSystem }

\* ceil(len / 3), by cases on the remainder
CeilThird(len) == IF len % 3 = 0 THEN len \div 3 ELSE len \div 3 + 1

HasTemporal(rows) == \E i \in 1..Len(rows) : Mentions(rows[i], TemporalTypes)

\* C1: every call of the three tools ends by returning a text; no exception
\* leaves the operation, the handler's own included.
C1_EveryCallReturnsText ==
    Done => (raised = NoExc /\ ret.kind # "none")

\* C2: a call of get_schema or query_parquet_files with a path that does not
\* exist returns a text holding "Parquet file not found: " followed by the
\* first missing path of the argument.
C2_MissingPathIsNamed ==
    (Done /\ op \in { "schema", "query" } /\ Missing # {}) =>
        /\ raised = NoExc
        /\ ret.kind = "message"
        /\ \E k \in 1..(Len(ret.text) - 1) :
              /\ ret.text[k] = NotFoundHead
              /\ ret.text[k + 1] =
                    PathText(parquet_files[CHOOSE i \in Missing : \A j \in Missing : i <= j])

\* C3, as claimed: for every integer cap, a record list returned for a query
\* with more rows than the cap holds exactly cap records, the first cap rows
\* of the result in engine order.
C3_ExactlyCapRecords ==
    (Done /\ op = "query" /\ ret.kind = "payload" /\ Len(result) > limit) =>
        /\ Len(ret.payload.rows) = limit
        /\ ret.payload.rows = SerializeRows(SubSeq(result, 1, limit))

\* C3, amended: for a cap >= 0 the rows serialized for a query with more rows
\* than the cap are exactly the first cap rows of the result in engine order;
\* for a cap -k < 0 they are the result without its last k rows.  A record
\* list returned is that serialization.
C3_FirstCapRows ==
    (Done /\ op = "query" /\ result_json # NoText /\ Len(result) > limit) =>
        /\ IF limit >= 0
           THEN /\ Len(result_json.rows) = limit
                /\ result_json.rows = SerializeRows(SubSeq(result, 1, limit))
           ELSE result_json.rows =
                    SerializeRows(SubSeq(result, 1, Max(0, Len(result) + limit)))
        /\ ret.kind = "payload" => ret.payload = result_json

C3_Witness ==
    /\ Done /\ op = "query" /\ ret.kind = "payload"
    /\ limit = 2 /\ Len(result) = 3
    /\ result[1] # result[2] /\ result[2] # result[3] /\ result[1] # result[3]

\* C4: the guard returns the payload unchanged when ceil(len(payload)/3) is
\* at most 5000, and otherwise a diagnostic whose estimated_tokens is that
\* estimate and whose token_limit is 5000, never the payload.
C4_GuardShapes ==
    (Done /\ result_json # NoText) =>
        LET estimate == CeilThird(result_json.len)
        IN  IF estimate <= 5000
            THEN ret.kind = "payload" /\ ret.payload = result_json
            ELSE /\ ret.kind = "diagnostic"
                 /\ ret.estimated_tokens = estimate
                 /\ ret.estimated_tokens > 5000
                 /\ ret.token_limit = 5000

C4_Witness ==
    /\ Done /\ ret.kind = "diagnostic"
    /\ result_json.len = 15001

\* C5: in a diagnostic, a known row count n gives suggested_limit =
\* max(1, floor(n * (5000 / estimate) * 0.8)), and an unknown row count gives
\* no suggested_limit.
C5_SuggestedLimitFormula ==
    (Done /\ ret.kind = "diagnostic") =>
        IF ret.rows_returned # None
        THEN ret.suggested_limit =
                Max(1, (ret.rows_returned * 5000 * 8) \div (ret.estimated_tokens * 10))
        ELSE ret.suggested_limit = None

\* The number of paths before the i-th that have the stem of the i-th.
EarlierSameStem(i) ==
    Cardinality({ j \in 1..(i - 1) :
                    PathStem(parquet_files[j]) = PathStem(parquet_files[i]) })

\* The name the claim gives the i-th path.
NameByStemCount(i) ==
    IF EarlierSameStem(i) = 0
    THEN PathStem(parquet_files[i])
    ELSE Suffixed(PathStem(parquet_files[i]), EarlierSameStem(i))

\* No stem of the list is another stem of the list with a suffix _k.
NoSuffixedStem ==
    \A i, j \in 1..Len(parquet_files) :
        \A k \in 1..Len(parquet_files) :
            PathStem(parquet_files[i]) # Suffixed(PathStem(parquet_files[j]), k)

\* C6, as claimed: for every list of paths, the first source of a stem is
\* named by the stem and the k-th later source of that stem by stem_k.
C6_NamesFollowStemCount ==
    op = "query" => \A i \in 1..Len(assigned) : assigned[i] = NameByStemCount(i)

\* C6, amended: the same, for the lists of paths in which no file's stem is
\* another file's stem followed by _k.
C6_NamesFollowStemCountWithoutSuffixedStems ==
    (op = "query" /\ NoSuffixedStem) =>
        \A i \in 1..Len(assigned) : assigned[i] = NameByStemCount(i)

C6_Witness ==
    /\ op = "query" /\ NoSuffixedStem /\ pc = "execute"
    /\ Len(assigned) = 3
    /\ assigned[2] = Suffixed(PathStem(parquet_files[1]), 1)
    /\ assigned[3] = Suffixed(PathStem(parquet_files[1]), 2)

\* The names assigned so far are pairwise distinct and as many as the paths
\* processed; the while loop has taken at most as many turns as there are
\* names assigned.
NamesUnique ==
    op = "query" =>
        /\ \A i, j \in 1..Len(assigned) : i # j => assigned[i] # assigned[j]
        /\ Cardinality(table_names.names) = Len(assigned)
        /\ pc = "for" => Len(assigned) = idx
        /\ pc = "while" => Len(assigned) = idx - 1 /\ counter - 1 <= Len(assigned)
        /\ pc = "execute" => Len(assigned) = Len(parquet_files)

\* C7: within one call of query_parquet_files the names assigned so far are
\* pairwise distinct and as many as the paths processed, after every prefix
\* of the path list; and the while loop ends, each of its turns raising the
\* counter, which never exceeds the number of names assigned by more than one.
C7_NamesUnique ==
    /\ []NamesUnique
    /\ [][(pc = "while" /\ pc' = "while") => counter' = counter + 1]_vars

C7_Witness ==
    /\ op = "query" /\ pc = "for"
    /\ Len(assigned) = 3
    /\ PathStem(parquet_files[3]) = PathStem(parquet_files[1])
    /\ assigned[3] # PathStem(parquet_files[3])

\* C8: a syntax error message holds "syntax", the engine's error, the query
\* text and the names of exactly the views created in this call.
C8_SyntaxMessageListsBoundViews ==
    (Done /\ op = "query" /\ ret.kind = "message"
       /\ ret.text[1] = "SQL syntax error: ") =>
        /\ \E k \in 1..Len(ret.text) : ret.text[k] = ParserErrorText
        /\ \E k \in 1..Len(ret.text) : ret.text[k] = query.text
        /\ ret.tables = { views[i] : i \in 1..Len(views) }

\* C9: a query that succeeds with rows holding temporal values returns
\* records or a size diagnostic, never a failure message.
C9_TemporalValuesSerialized ==
    (Done /\ op = "query" /\ HasTemporal(result)) =>
        /\ ret.kind \in { "payload", "diagnostic" }
        /\ ~HasTemporal(result_json.rows)

\* C10, as claimed: a diagnostic of query_parquet_files carries a
\* suggested_limit strictly smaller than rows_returned.
C10_SuggestedBelowReturned ==
    (Done /\ op = "query" /\ ret.kind = "diagnostic") =>
        /\ ret.suggested_limit # None
        /\ ret.suggested_limit < ret.rows_returned

\* C10, amended: a diagnostic of query_parquet_files carries a suggested_limit
\* that is at most rows_returned, the number of rows serialized, and strictly
\* smaller when rows_returned is 2 or more.
C10_SuggestedAtMostReturned ==
    (Done /\ op = "query" /\ ret.kind = "diagnostic") =>
        /\ ret.suggested_limit # None
        /\ ret.rows_returned = Len(result_json.rows)
        /\ ret.suggested_limit <= ret.rows_returned
        /\ ret.rows_returned >= 2 => ret.suggested_limit < ret.rows_returned

C10_Witness ==
    /\ Done /\ op = "query" /\ ret.kind = "diagnostic"
    /\ ret.rows_returned = 3
    /\ ret.suggested_limit = 2

====
